---- MODULE Spec2Model ----
(***************************************************************************)
(* Kruskal-tensor primitives of tensorly/kruskal_tensor.py:               *)
(* kruskal_to_tensor, kruskal_to_unfolded and kruskal_to_vec, applied by  *)
(* a caller to one factor list that the caller keeps between calls.       *)
(*                                                                         *)
(* A matrix is a non-empty sequence of rows, a row a non-empty sequence   *)
(* of integers.  A tensor is a record [shape, data] whose data maps every *)
(* index tuple (1-based) to an entry.  Python's 0-based positions are     *)
(* kept for `mode` and `skip_matrix`.                                     *)
(***************************************************************************)
EXTENDS Integers, Sequences, FiniteSets, TLC

\* ------------------------------------------------------------------ bounds
MaxN == 3          \* longest factor list
MaxDim == 2        \* largest mode dimension s_i
MaxRank == 2       \* largest column count of a factor
MaxVal == 1        \* factor entries are drawn from 0..MaxVal
MaxCells == 5      \* total number of entries of a factor list
MaxArgCells == 6   \* entries of factors, weights and mask of one call together
MaxW == 2          \* weights are drawn from 0..MaxW
SeqCells == 4      \* entries of a factor list that receives a sequence of calls
SeqCalls == 2      \* length of such a sequence

\* ------------------------------------------------------------- arithmetic
RECURSIVE SeqSum(_)
SeqSum(s) == IF Len(s) = 0 THEN 0 ELSE s[1] + SeqSum(Tail(s))

RECURSIVE SeqProd(_)
SeqProd(s) == IF Len(s) = 0 THEN 1 ELSE s[1] * SeqProd(Tail(s))

\* s without its element at 1-based position p (unchanged when p is no position)
RemoveAt(s, p) == [k \in 1..(Len(s) - (IF p \in 1..Len(s) THEN 1 ELSE 0)) |->
                     IF k < p \/ p < 1 THEN s[k] ELSE s[k + 1]]

RECURSIVE SeqMax(_)
SeqMax(s) == IF Len(s) = 0 THEN 0
             ELSE LET m == SeqMax(Tail(s)) IN IF s[1] > m THEN s[1] ELSE m

\* index tuples of an array of the given shape
Indices(shp) == {idx \in [1..Len(shp) -> 1..SeqMax(shp)] :
                   \A k \in 1..Len(shp) : idx[k] <= shp[k]}

\* 0-based row-major (C order) position of an index tuple
RECURSIVE Ravel(_, _)
Ravel(idx, shp) ==
  IF Len(idx) = 0 THEN 0
  ELSE (idx[1] - 1) * SeqProd(Tail(shp)) + Ravel(Tail(idx), Tail(shp))

\* index tuple at a 0-based row-major position
RECURSIVE Unravel(_, _)
Unravel(p, shp) ==
  IF Len(shp) = 0 THEN <<>>
  ELSE <<(p \div SeqProd(Tail(shp))) + 1>> \o Unravel(p % SeqProd(Tail(shp)), Tail(shp))

\* ---------------------------------------------------------------- backend
Rows(M) == Len(M)
Cols(M) == Len(M[1])

\* T.shape(factor)[0] for every factor
ModeShape(factors) == [k \in 1..Len(factors) |-> Rows(factors[k])]

\* factors[0]*weights : numpy broadcasts the vector over the rows
ScaleCols(M, w) == [i \in 1..Rows(M) |-> [r \in 1..Cols(M) |-> M[i][r] * w[r]]]

\* T.sum(matrix, axis=1)
SumAxis1(M) == [i \in 1..Rows(M) |-> SeqSum(M[i])]

\* T.transpose(matrix)
Transpose(M) == [j \in 1..Cols(M) |-> [i \in 1..Rows(M) |-> M[i][j]]]

\* T.dot(A, B)
Dot(A, B) == [i \in 1..Rows(A) |-> [j \in 1..Cols(B) |->
                SeqSum([r \in 1..Cols(A) |-> A[i][r] * B[r][j]])]]

\* ------------------------------------------------------- absent arguments
NoWeights == <<>>
NoMask == [shape |-> <<>>, data |-> <<>>]
HasWeights(w) == Len(w) > 0
HasMask(m) == Len(m.shape) > 0
NoMode == 99

\* ------------------------------------------------------- tenalg.khatri_rao
\* column-wise Kronecker product of two matrices
Kr2(A, B) == [k \in 1..(Rows(A) * Rows(B)) |-> [r \in 1..Cols(A) |->
                A[((k - 1) \div Rows(B)) + 1][r] * B[((k - 1) % Rows(B)) + 1][r]]]

RECURSIVE KrAll(_, _)
KrAll(ms, R) ==
  IF Len(ms) = 0 THEN <<[r \in 1..R |-> 1]>>
  ELSE IF Len(ms) = 1 THEN ms[1]
  ELSE Kr2(KrAll(SubSeq(ms, 1, Len(ms) - 1), R), ms[Len(ms)])

SameRank(ms) == \A i, j \in 1..Len(ms) : Cols(ms[i]) = Cols(ms[j])

Broadcastable(m, shp) ==
  /\ Len(m.shape) = Len(shp)
  /\ \A k \in 1..Len(shp) : m.shape[k] \in {1, shp[k]}

\* the mask entry that broadcasting puts at index idx of the output
MaskAt(m, idx) == m.data[[k \in 1..Len(idx) |-> IF m.shape[k] = 1 THEN 1 ELSE idx[k]]]

Error(e) == [kind |-> "error", val |-> e]
IsError(x) == x.kind = "error"

\* khatri_rao(matrices, skip_matrix=skip, mask=m); skip is 0-based or NoMode
khatri_rao(matrices, skip, m) ==
  LET ms == IF skip = NoMode THEN matrices ELSE RemoveAt(matrices, skip + 1)
      shp == ModeShape(ms)
      kr == KrAll(ms, Cols(matrices[1]))
  IN IF ~SameRank(ms) THEN Error("ShapeMismatch")
     ELSE IF ~HasMask(m) THEN [kind |-> "matrix", val |-> kr]
     ELSE IF ~Broadcastable(m, shp) THEN Error("Broadcast")
     ELSE [kind |-> "matrix",
           val |-> [k \in 1..Rows(kr) |-> [r \in 1..Cols(kr) |->
                      kr[k][r] * MaskAt(m, Unravel(k - 1, shp))]]]

\* ------------------------------------------------------------ tensorly.base
\* tl.fold(unfolded, mode, shape) for a flat or unfolded array given row-major
\* as the sequence flat; mode is 0-based
fold(flat, mode, shp) ==
  LET full == <<shp[mode + 1]>> \o RemoveAt(shp, mode + 1)
  IN [kind |-> "tensor",
      val |-> [shape |-> shp,
               data |-> [idx \in Indices(shp) |->
                  flat[Ravel(<<idx[mode + 1]>> \o RemoveAt(idx, mode + 1), full) + 1]]]]

\* tl.unfold(tensor, mode): mode-`mode` unfolding, remaining modes in order
unfold(t, mode) ==
  LET rest == RemoveAt(t.shape, mode + 1)
      at(i, c) == LET u == Unravel(c - 1, rest)
                  IN [k \in 1..Len(t.shape) |->
                        IF k = mode + 1 THEN i
                        ELSE IF k < mode + 1 THEN u[k] ELSE u[k - 1]]
  IN [i \in 1..t.shape[mode + 1] |-> [c \in 1..SeqProd(rest) |-> t.data[at(i, c)]]]

\* tl.tensor_to_vec(tensor): reshape(tensor, (-1,))
tensor_to_vec(t) == [k \in 1..SeqProd(t.shape) |-> t.data[Unravel(k - 1, t.shape)]]

\* --------------------------------------------------------- kruskal_tensor.py
\* Each operator returns the caller's list as the call leaves it (factors)
\* and the returned value or the raised error (ret).

Reverse(s) == [k \in 1..Len(s) |-> s[Len(s) + 1 - k]]

\* variant: the Khatri-Rao product is taken over the factors in reverse order
kruskal_to_tensor_reversed(factors, weights, mask) ==
  LET shape == ModeShape(factors)
      fs == IF HasWeights(weights)
            THEN [factors EXCEPT ![1] = ScaleCols(factors[1], weights)]
            ELSE factors
      kr == khatri_rao(Reverse(fs), NoMode, mask)
  IN [factors |-> fs,
      ret |-> IF IsError(kr) THEN kr ELSE fold(SumAxis1(kr.val), 0, shape)]

\* variant: the weights are applied to the first factor twice
kruskal_to_tensor_twice(factors, weights, mask) ==
  LET shape == ModeShape(factors)
      fs == IF HasWeights(weights)
            THEN [factors EXCEPT ![1] = ScaleCols(ScaleCols(factors[1], weights), weights)]
            ELSE factors
      kr == khatri_rao(fs, NoMode, mask)
  IN [factors |-> fs,
      ret |-> IF IsError(kr) THEN kr ELSE fold(SumAxis1(kr.val), 0, shape)]

\* variant: the mask is not handed to khatri_rao
kruskal_to_tensor_nomask(factors, weights, mask) ==
  LET shape == ModeShape(factors)
      fs == IF HasWeights(weights)
            THEN [factors EXCEPT ![1] = ScaleCols(factors[1], weights)]
            ELSE factors
      kr == khatri_rao(fs, NoMode, NoMask)
  IN [factors |-> fs,
      ret |-> IF IsError(kr) THEN kr ELSE fold(SumAxis1(kr.val), 0, shape)]

\* the smallest column count of a list, and the list cut to that many columns
RECURSIVE MinCols(_)
MinCols(fs) ==
  IF Len(fs) = 1 THEN Cols(fs[1])
  ELSE LET m == MinCols(Tail(fs)) IN IF Cols(fs[1]) < m THEN Cols(fs[1]) ELSE m

Truncated(fs) ==
  [k \in 1..Len(fs) |-> [i \in 1..Rows(fs[k]) |-> SubSeq(fs[k][i], 1, MinCols(fs))]]

\* variant: the factors are cut to their common leading columns first
kruskal_to_tensor_truncating(factors, weights, mask) ==
  LET shape == ModeShape(factors)
      fs == IF HasWeights(weights)
            THEN [factors EXCEPT ![1] = ScaleCols(factors[1], weights)]
            ELSE factors
      kr == khatri_rao(Truncated(fs), NoMode, mask)
  IN [factors |-> fs,
      ret |-> IF IsError(kr) THEN kr ELSE fold(SumAxis1(kr.val), 0, shape)]

kruskal_to_tensor(factors, weights, mask) ==
  LET shape == ModeShape(factors)
      fs == IF HasWeights(weights)
            THEN [factors EXCEPT ![1] = ScaleCols(factors[1], weights)]
            ELSE factors
      kr == khatri_rao(fs, NoMode, mask)
  IN [factors |-> fs,
      ret |-> IF IsError(kr) THEN kr ELSE fold(SumAxis1(kr.val), 0, shape)]

\* Python's factors[mode]: negative positions count from the end
PyIndexOk(n, i) == -n <= i /\ i < n
PyIndex(n, i) == IF i < 0 THEN n + i + 1 ELSE i + 1

\* variant: the first factor is used whatever the mode
kruskal_to_unfolded_first(factors, mode) ==
  LET n == Len(factors)
  IN [factors |-> factors,
      ret |-> IF ~PyIndexOk(n, mode) THEN Error("IndexError")
              ELSE LET U == factors[1]
                       kr == khatri_rao(factors, mode, NoMask)
                   IN IF IsError(kr) THEN kr
                      ELSE IF Cols(U) # Cols(kr.val) THEN Error("ShapeMismatch")
                      ELSE [kind |-> "matrix", val |-> Dot(U, Transpose(kr.val))]]

kruskal_to_unfolded(factors, mode) ==
  LET n == Len(factors)
  IN [factors |-> factors,
      ret |-> IF ~PyIndexOk(n, mode) THEN Error("IndexError")
              ELSE LET U == factors[PyIndex(n, mode)]
                       kr == khatri_rao(factors, mode, NoMask)
                   IN IF IsError(kr) THEN kr
                      ELSE IF Cols(U) # Cols(kr.val) THEN Error("ShapeMismatch")
                      ELSE [kind |-> "matrix", val |-> Dot(U, Transpose(kr.val))]]

\* variant: the tensor is raveled first mode fastest (column-major)
kruskal_to_vec_colmajor(factors) ==
  LET t == kruskal_to_tensor(factors, NoWeights, NoMask)
  IN [factors |-> t.factors,
      ret |-> IF IsError(t.ret) THEN t.ret
              ELSE [kind |-> "vector",
                    val |-> [k \in 1..SeqProd(t.ret.val.shape) |->
                       t.ret.val.data[Reverse(Unravel(k - 1, Reverse(t.ret.val.shape)))]]]]

kruskal_to_vec(factors) ==
  LET t == kruskal_to_tensor(factors, NoWeights, NoMask)
  IN [factors |-> t.factors,
      ret |-> IF IsError(t.ret) THEN t.ret
              ELSE [kind |-> "vector", val |-> tensor_to_vec(t.ret.val)]]

\* ------------------------------------------------------------------ inputs
\* a list of factor shapes <<s_i, R_i>> with at most c entries together
RECURSIVE ShapeLists(_, _)
ShapeLists(n, c) ==
  IF n = 0 THEN {<<>>}
  ELSE UNION {{<<d>> \o rest : rest \in ShapeLists(n - 1, c - d[1] * d[2])} :
                d \in {e \in (1..MaxDim) \X (1..MaxRank) : e[1] * e[2] <= c - (n - 1)}}

FactorShapes(c) == UNION {ShapeLists(n, c) : n \in 1..MaxN}

RECURSIVE CellsOf(_)
CellsOf(ds) == IF Len(ds) = 0 THEN 0 ELSE ds[1][1] * ds[1][2] + CellsOf(Tail(ds))

\* the factor list of the given shapes whose entries, read row by row and
\* factor by factor, are the sequence v
FactorsOf(ds, v) ==
  [k \in 1..Len(ds) |-> [i \in 1..ds[k][1] |-> [r \in 1..ds[k][2] |->
     v[CellsOf(SubSeq(ds, 1, k - 1)) + (i - 1) * ds[k][2] + r]]]]

RECURSIVE Cells(_)
Cells(fs) == IF Len(fs) = 0 THEN 0 ELSE Rows(fs[1]) * Cols(fs[1]) + Cells(Tail(fs))

WeightChoices(fs) == {NoWeights} \cup [1..Cols(fs[1]) -> 0..MaxW]

\* masks are 0/1 arrays with as many dimensions as there are factors
MaskShapes(n) == [1..n -> 1..MaxDim]
MaskChoices(fs) ==
  {NoMask} \cup UNION {{[shape |-> ms, data |-> d] : d \in [Indices(ms) -> 0..1]} :
               ms \in {x \in MaskShapes(Len(fs)) : Cells(fs) + SeqProd(x) <= MaxArgCells}}

MaskCells(m) == IF HasMask(m) THEN SeqProd(m.shape) ELSE 0

\* the arguments of one call stay within the size explored
ArgsFit(fs, w, m) ==
  (HasWeights(w) \/ HasMask(m)) => Cells(fs) + Len(w) + MaskCells(m) <= MaxArgCells

\* the two 2x2 factors of rank 2 that the specification works through
ExampleFactors == << << <<1, 0>>, <<0, 1>> >>, << <<1, 1>>, <<1, 1>> >> >>

\* its rank-mismatch example: U of shape (3,2) and V of shape (4,3)
MismatchFactors == << [i \in 1..3 |-> <<1, 1>>], [i \in 1..4 |-> <<1, 1, 1>>] >>

ModeChoices == (-(MaxN + 1))..(MaxN + 2)

\* ------------------------------------------------------------------- state
VARIABLES factors,   \* the caller's factor list
          orig,      \* the list as the caller built it
          pre,       \* the list as it was when the last call was made
          op,        \* the last call: "none", "tensor", "unfolded", "vec"
          weights,   \* its weights argument
          mask,      \* its mask argument
          mode,      \* its mode argument
          result,    \* what it returned or raised
          left       \* calls the caller still makes

vars == <<factors, orig, pre, op, weights, mask, mode, result, left>>

\* the caller holds the list fs and is about to make n calls
Start(fs, n) ==
  /\ factors = fs
  /\ orig = fs
  /\ pre = fs
  /\ op = "none"
  /\ weights = NoWeights
  /\ mask = NoMask
  /\ mode = NoMode
  /\ result = [kind |-> "none", val |-> <<>>]
  /\ left = n

\* one call on any list within the bounds or on an example of the specification
Init ==
  \/ \E ds \in FactorShapes(MaxCells) :
       \E v \in [1..CellsOf(ds) -> 0..MaxVal] : Start(FactorsOf(ds, v), 1)
  \/ \E fs \in {ExampleFactors, MismatchFactors} : Start(fs, 1)

\* a sequence of calls on one list
InitSeq ==
  \E ds \in FactorShapes(SeqCells) :
    \E v \in [1..CellsOf(ds) -> 0..MaxVal] : Start(FactorsOf(ds, v), SeqCalls)

CallTensor ==
  /\ left > 0
  /\ \E w \in WeightChoices(factors), m \in MaskChoices(factors) :
       LET c == kruskal_to_tensor(factors, w, m)
       IN /\ ArgsFit(factors, w, m)
          /\ factors' = c.factors
          /\ result' = c.ret
          /\ weights' = w
          /\ mask' = m
  /\ pre' = factors
  /\ orig' = orig
  /\ op' = "tensor"
  /\ mode' = NoMode
  /\ left' = left - 1

CallUnfolded ==
  /\ left > 0
  /\ \E md \in ModeChoices :
       LET c == kruskal_to_unfolded(factors, md)
       IN /\ factors' = c.factors
          /\ result' = c.ret
          /\ mode' = md
  /\ pre' = factors
  /\ orig' = orig
  /\ op' = "unfolded"
  /\ weights' = NoWeights
  /\ mask' = NoMask
  /\ left' = left - 1

CallVec ==
  /\ left > 0
  /\ LET c == kruskal_to_vec(factors)
     IN /\ factors' = c.factors
        /\ result' = c.ret
  /\ pre' = factors
  /\ orig' = orig
  /\ op' = "vec"
  /\ weights' = NoWeights
  /\ mask' = NoMask
  /\ mode' = NoMode
  /\ left' = left - 1

Next == CallTensor \/ CallUnfolded \/ CallVec

Spec == Init /\ [][Next]_vars

SpecSeq == InitSeq /\ [][Next]_vars

TypeOK == left \in 0..SeqCalls

\* ------------------------------------------------------ reference values
\* sum over the rank of the product of one entry per factor
Entry(fs, idx) ==
  SeqSum([r \in 1..Cols(fs[1]) |-> SeqProd([k \in 1..Len(fs) |-> fs[k][idx[k]][r]])])

\* the same with rank component r scaled by w[r]
WEntry(fs, w, idx) ==
  SeqSum([r \in 1..Cols(fs[1]) |->
            w[r] * SeqProd([k \in 1..Len(fs) |-> fs[k][idx[k]][r]])])

Reconstruct(fs) ==
  [shape |-> ModeShape(fs),
   data |-> [idx \in Indices(ModeShape(fs)) |-> Entry(fs, idx)]]

\* rows of a matrix one after the other
Flatten(M) == [k \in 1..(Rows(M) * Cols(M)) |->
                 M[((k - 1) \div Cols(M)) + 1][((k - 1) % Cols(M)) + 1]]

Plain == ~HasWeights(weights) /\ ~HasMask(mask)

ExampleTensor ==
  [shape |-> <<2, 2>>,
   data |-> [idx \in Indices(<<2, 2>>) |-> 1]]

\* ------------------------------------------------------------------ claims

\* C1: kruskal_to_tensor of a list of consistent rank, without weights and
\* mask, returns a tensor of shape (s_1..s_N) whose entry at every index is
\* the sum over the rank of the product of the factors' entries; for one
\* factor these are its row sums, and the worked 2x2 example gives all ones.
C1_FullTensor ==
  (op = "tensor" /\ Plain /\ SameRank(pre)) =>
     /\ result.kind = "tensor"
     /\ result.val.shape = ModeShape(pre)
     /\ DOMAIN result.val.data = Indices(ModeShape(pre))
     /\ \A idx \in Indices(ModeShape(pre)) : result.val.data[idx] = Entry(pre, idx)
     /\ Len(pre) = 1 =>
          \A i \in 1..Rows(pre[1]) : result.val.data[<<i>>] = SeqSum(pre[1][i])
     /\ pre = ExampleFactors => result.val = ExampleTensor

C1_Witness ==
  /\ op = "tensor" /\ Plain
  /\ pre = ExampleFactors
  /\ result.kind = "tensor"
  /\ result.val = ExampleTensor

\* C2: for a list of consistent rank and a mode m with 0 <= m < N,
\* kruskal_to_unfolded returns a matrix of shape (s_m, product of the other
\* s_i) that equals the mode-m unfolding of the full reconstruction.
C2_Unfolded ==
  (op = "unfolded" /\ SameRank(pre) /\ 0 <= mode /\ mode < Len(pre)) =>
     /\ result.kind = "matrix"
     /\ Rows(result.val) = Rows(pre[mode + 1])
     /\ Cols(result.val) = SeqProd(RemoveAt(ModeShape(pre), mode + 1))
     /\ result.val = unfold(Reconstruct(pre), mode)
     /\ result.val = unfold(kruskal_to_tensor(pre, NoWeights, NoMask).ret.val, mode)

C2_Witness ==
  /\ op = "unfolded" /\ mode = 1
  /\ Len(pre) = 3 /\ SameRank(pre)
  /\ ModeShape(pre) = <<2, 1, 2>>
  /\ result.kind = "matrix"
  /\ result.val = << <<0, 0, 1, 0>> >>

\* C3: for a list of consistent rank, kruskal_to_vec returns a vector of
\* length s_1*...*s_N whose element at the row-major position of (i_1..i_N)
\* is the tensor entry at that index: the flattened mode-0 unfolding.
C3_Vec ==
  (op = "vec" /\ SameRank(pre)) =>
     /\ result.kind = "vector"
     /\ Len(result.val) = SeqProd(ModeShape(pre))
     /\ \A idx \in Indices(ModeShape(pre)) :
           result.val[Ravel(idx, ModeShape(pre)) + 1] = Entry(pre, idx)
     /\ result.val =
           Flatten(unfold(kruskal_to_tensor(pre, NoWeights, NoMask).ret.val, 0))

C3_Witness ==
  /\ op = "vec"
  /\ Len(pre) = 2 /\ SameRank(pre)
  /\ ModeShape(pre) = <<2, 2>>
  /\ result.kind = "vector"
  /\ result.val = <<0, 1, 0, 0>>

\* C4: with weights w, kruskal_to_tensor returns what it returns without
\* weights for the list whose first factor has column r multiplied by w[r]:
\* rank component r is scaled by w[r] exactly once.
C4_Weighting ==
  (op = "tensor" /\ HasWeights(weights) /\ ~HasMask(mask) /\ SameRank(pre)) =>
     /\ result.kind = "tensor"
     /\ result.val.shape = ModeShape(pre)
     /\ \A idx \in Indices(ModeShape(pre)) :
           result.val.data[idx] = WEntry(pre, weights, idx)
     /\ result.val = Reconstruct([pre EXCEPT ![1] = ScaleCols(pre[1], weights)])

C4_Witness ==
  /\ op = "tensor" /\ ~HasMask(mask)
  /\ weights = <<2, 1>>
  /\ Len(pre) = 2 /\ SameRank(pre)
  /\ result.kind = "tensor"
  /\ pre = << <<<<1, 1>>>>, <<<<1, 1>>>> >>
  /\ result.val.shape = <<1, 1>>
  /\ result.val.data[<<1, 1>>] = 3

\* C5: with a mask broadcastable to the output shape and no weights,
\* kruskal_to_tensor returns the elementwise product of the unmasked
\* reconstruction and the mask.
C5_Masking ==
  (op = "tensor" /\ ~HasWeights(weights) /\ HasMask(mask) /\ SameRank(pre)
     /\ Broadcastable(mask, ModeShape(pre))) =>
     /\ result.kind = "tensor"
     /\ result.val.shape = ModeShape(pre)
     /\ \A idx \in Indices(ModeShape(pre)) :
           result.val.data[idx] = Entry(pre, idx) * MaskAt(mask, idx)

C5_Witness ==
  /\ op = "tensor" /\ ~HasWeights(weights)
  /\ mask.shape = <<1, 2>>
  /\ mask.data[<<1, 1>>] = 0 /\ mask.data[<<1, 2>>] = 1
  /\ SameRank(pre)
  /\ ModeShape(pre) = <<2, 2>>
  /\ result.kind = "tensor"
  /\ \A i \in 1..2 : result.val.data[<<i, 1>>] = 0 /\ result.val.data[<<i, 2>>] = 1

\* C7: when two factors have different column counts kruskal_to_tensor
\* fails with a shape-mismatch error and returns no tensor.
C7_RankMismatch ==
  (op = "tensor" /\ ~SameRank(pre)) => result = Error("ShapeMismatch")

C7_Witness ==
  /\ op = "tensor"
  /\ pre = MismatchFactors
  /\ ModeShape(pre) = <<3, 4>>
  /\ Cols(pre[1]) = 2 /\ Cols(pre[2]) = 3
  /\ result = Error("ShapeMismatch")

\* C6: every call, with or without weights and mask, leaves the caller's
\* factor list holding the matrices it held before the call, in every
\* position; the same for kruskal_to_unfolded and kruskal_to_vec.
C6_NoSideEffect ==
  op # "none" => factors = pre

\* C8: for a list of N factors and every mode outside 0 <= mode < N,
\* negative modes included, kruskal_to_unfolded fails with an index error
\* and returns no matrix.
C8_ModeOutOfRange ==
  (op = "unfolded" /\ ~(0 <= mode /\ mode < Len(pre))) =>
     result = Error("IndexError")

\* C9: repeated kruskal_to_tensor calls with the same list and the same
\* weights return the same tensor every time, and a later call without
\* weights (kruskal_to_tensor, kruskal_to_unfolded with a mode in range,
\* kruskal_to_vec) returns the unweighted reconstruction of the list the
\* caller built.
C9_RepeatedCalls ==
  [][/\ (op = "tensor" /\ op' = "tensor" /\ HasWeights(weights)
           /\ weights' = weights /\ mask' = mask)
        => result' = result
     /\ (op' = "tensor" /\ ~HasWeights(weights') /\ ~HasMask(mask') /\ SameRank(orig))
        => result'.val = Reconstruct(orig)
     /\ (op' = "unfolded" /\ SameRank(orig) /\ 0 <= mode' /\ mode' < Len(orig))
        => result'.val = unfold(Reconstruct(orig), mode')
     /\ (op' = "vec" /\ SameRank(orig))
        => result'.val = Flatten(unfold(Reconstruct(orig), 0))]_vars

\* C10: when kruskal_to_tensor fails, no tensor is returned and the
\* caller's factor list is left as it was before the call.
C10_UnchangedOnError ==
  (op = "tensor" /\ IsError(result)) => factors = pre
====
